---- MODULE Spec2Model ----
(***************************************************************************)
(* openai-proxy (src/main.rs): a single-route reverse proxy.               *)
(*                                                                         *)
(* Text (paths, queries, URIs, environment values) is a sequence of        *)
(* one-character strings, a body is a sequence of byte values 0..255, and  *)
(* a header map is a function from header name to the sequence of values   *)
(* stored under that name (http::HeaderMap keeps names lower-case).        *)
(***************************************************************************)
EXTENDS Integers, Sequences, FiniteSets, TLC

\* ------------------------------------------------------------------ bounds

\* Number of handler tasks that may be in flight together.
NTasks == 2
\* Longest body payload (request body, response payload before encoding).
MaxBodyLen == 2

Tasks == 1..NTasks

\* ------------------------------------------------------------ text helpers

RECURSIVE SeqsUpTo(_, _)
\* All sequences over S of length at most n.
SeqsUpTo(S, n) ==
    IF n = 0 THEN {<<>>}
    ELSE LET shorter == SeqsUpTo(S, n - 1)
         IN  shorter \cup {Append(s, x) : s \in shorter, x \in S}

\* str::starts_with
StartsWith(s, p) ==
    /\ Len(s) >= Len(p)
    /\ SubSeq(s, 1, Len(p)) = p

\* Index of the first occurrence of pat in s at or after position from, 0 if none.
RECURSIVE FindFrom(_, _, _)
FindFrom(s, pat, from) ==
    IF from + Len(pat) - 1 > Len(s) THEN 0
    ELSE IF SubSeq(s, from, from + Len(pat) - 1) = pat THEN from
    ELSE FindFrom(s, pat, from + 1)

\* A faulty variant of Replacen: str::replace, every non-overlapping occurrence.
RECURSIVE ReplaceAll(_, _, _, _)
ReplaceAll(s, pat, to, n) ==
    LET i == FindFrom(s, pat, 1)
    IN  IF i = 0 THEN s
        ELSE SubSeq(s, 1, i - 1) \o to
             \o ReplaceAll(SubSeq(s, i + Len(pat), Len(s)), pat, to, n)

\* str::replacen(pat, to, n): the first n non-overlapping occurrences.
RECURSIVE Replacen(_, _, _, _)
Replacen(s, pat, to, n) ==
    LET i == FindFrom(s, pat, 1)
    IN  IF n = 0 \/ i = 0 THEN s
        ELSE SubSeq(s, 1, i - 1) \o to
             \o Replacen(SubSeq(s, i + Len(pat), Len(s)), pat, to, n - 1)

\* ------------------------------------------------------- fixed configuration

\* "/openai/"
Prefix == <<"/", "o", "p", "e", "n", "a", "i", "/">>
\* "https://api.openai.com"
SchemeHost ==
    <<"h", "t", "t", "p", "s", ":", "/", "/",
      "a", "p", "i", ".", "o", "p", "e", "n", "a", "i", ".", "c", "o", "m">>
UpstreamHost == "api.openai.com"
DefaultPort == 4000

\* ---------------------------------------------------------------- http::Uri

\* Bytes http::Uri accepts unescaped in a path and in a query.  "bq" stands
\* for the back quote (0x60), legal in a query and illegal in a path.
QueryOnlyChars == {"bq", "?"}
PathChars ==
    {"/", "a", "b", "c", "e", "h", "i", "m", "n", "o", "p", "s", "t", "v", "x",
     "1", "=", ".", ":"}
QueryChars == PathChars \cup QueryOnlyChars

NoQuery == <<"#none">>

\* Uri::try_from on "https://<authority><rest>": the path runs to the first
\* "?", the query is what follows; a byte outside the class of its part is
\* an InvalidUriChar error.
UriParse(s) ==
    LET rest == SubSeq(s, Len(SchemeHost) + 1, Len(s))
        q    == FindFrom(rest, <<"?">>, 1)
        path == IF q = 0 THEN rest ELSE SubSeq(rest, 1, q - 1)
        qry  == IF q = 0 THEN NoQuery ELSE SubSeq(rest, q + 1, Len(rest))
    IN  [ok    |-> /\ StartsWith(s, SchemeHost)
                   /\ \A i \in 1..Len(path) : path[i] \in PathChars
                   /\ q # 0 => \A i \in 1..Len(qry) : qry[i] \in QueryChars,
         path  |-> path,
         query |-> qry]

\* Display for Uri: scheme://authority path [?query]
UriToString(u) ==
    SchemeHost \o (IF u.path = <<>> THEN <<"/">> ELSE u.path)
    \o (IF u.query = NoQuery THEN <<>> ELSE <<"?">> \o u.query)

\* format!("https://api.openai.com{}{}", &path, query)
FormatUri(path, query) == SchemeHost \o path \o query

\* ----------------------------------------------------------- http::HeaderMap

HeaderNames ==
    {"host", "authorization", "content-type", "content-encoding",
     "transfer-encoding", "content-length"}

NoHeaders == [n \in HeaderNames |-> <<>>]

\* A faulty variant of HeaderInsert: HeaderMap::append keeps the values already there.
HeaderAppend(h, name, v) == [h EXCEPT ![name] = Append(@, v)]

\* HeaderMap::insert: the one value under the name, whatever was there.
HeaderInsert(h, name, v) == [h EXCEPT ![name] = <<v>>]

\* A faulty variant of HeaderRemove: the header is left in place.
HeaderKeep(h, name) == h

\* HeaderMap::remove: every value under the name.
HeaderRemove(h, name) == [h EXCEPT ![name] = <<>>]

\* HeaderMap::get(name).is_some()
HeaderIsSome(h, name) == h[name] # <<>>

\* ------------------------------------------------------------------- UTF-8

\* A continuation byte.
IsCont(b) == b >= 128 /\ b <= 191

\* A faulty variant of Utf8Valid: from_utf8_lossy never fails.
Utf8Lossy(b) == TRUE

\* std::str::from_utf8(..).is_ok() and String::from_utf8(..).is_ok()
RECURSIVE Utf8Valid(_)
Utf8Valid(b) ==
    IF b = <<>> THEN TRUE
    ELSE LET x == b[1]
             n == Len(b)
         IN  IF x < 128 THEN Utf8Valid(Tail(b))
             ELSE IF x >= 194 /\ x <= 223
             THEN /\ n >= 2
                  /\ IsCont(b[2])
                  /\ Utf8Valid(SubSeq(b, 3, n))
             ELSE IF x >= 224 /\ x <= 239
             THEN /\ n >= 3
                  /\ IsCont(b[2])
                  /\ x = 224 => b[2] >= 160
                  /\ x = 237 => b[2] <= 159
                  /\ IsCont(b[3])
                  /\ Utf8Valid(SubSeq(b, 4, n))
             ELSE IF x >= 240 /\ x <= 244
             THEN /\ n >= 4
                  /\ IsCont(b[2])
                  /\ x = 240 => b[2] >= 144
                  /\ x = 244 => b[2] <= 143
                  /\ IsCont(b[3])
                  /\ IsCont(b[4])
                  /\ Utf8Valid(SubSeq(b, 5, n))
             ELSE FALSE

\* ------------------------------------------------------ libflate::gzip::Decoder

\* A gzip member, reduced to what the decoder checks: the two magic bytes,
\* the stored data, and a trailer holding the data's length.
GzipMagic == <<31, 139>>

\* Decoder::new(..).is_ok(): the header is read and checked here.
GzipDecoderNew(b) == StartsWith(b, GzipMagic)

\* decoder.read_to_end(..): the data, when the trailer is there and agrees.
GzipReadToEnd(b) ==
    LET n == Len(b)
    IN  [ok   |-> n >= 3 /\ b[n] = n - 3,
         data |-> IF n >= 3 THEN SubSeq(b, 3, n - 1) ELSE <<>>]

\* -------------------------------------------------- what the callers may send

\* "{" and the two bytes of U+00E9; each of the two alone is no UTF-8.
BodyBytes == {123, 195, 169}
Payloads == SeqsUpTo(BodyBytes, MaxBodyLen)

Methods == {"GET", "POST"}

PathRoot == <<"/">>
PathOther == <<"/", "x">>
PathNoSlash == <<"/", "o", "p", "e", "n", "a", "i">>
PathBare == Prefix
PathV1 == Prefix \o <<"v", "1">>
PathLater == <<"/", "v", "1">> \o Prefix
PathTwice == Prefix \o Prefix \o <<"x">>
Paths ==
    {PathRoot, PathOther, PathNoSlash, PathBare, PathV1, PathLater, PathTwice}

QueryX1 == <<"x", "=", "1">>
QueryBackQuote == <<"a", "bq">>
QueryTwoMarks == <<"a", "?", "b">>
Queries == {NoQuery, <<>>, QueryX1, QueryBackQuote, QueryTwoMarks}

HostNone == [NoHeaders EXCEPT !["authorization"] = <<"Bearer k">>]
HostOne == [NoHeaders EXCEPT !["host"] = <<"proxy.example">>]
HostTwo ==
    [NoHeaders EXCEPT !["host"] = <<"proxy.example", "other.example">>,
                      !["authorization"] = <<"Bearer k">>,
                      !["content-type"] = <<"application/json">>]
RequestHeaders == {HostNone, HostOne, HostTwo}

Requests ==
    [method : Methods, path : Paths, query : Queries,
     headers : RequestHeaders, body : Payloads]

\* A few requests: one outside the route, one forwarded, one whose body is
\* no UTF-8.
FewRequests ==
    {[method |-> "GET", path |-> PathOther, query |-> NoQuery,
      headers |-> HostOne, body |-> <<>>],
     [method |-> "POST", path |-> PathV1, query |-> NoQuery,
      headers |-> HostOne, body |-> <<123>>],
     [method |-> "POST", path |-> PathV1, query |-> NoQuery,
      headers |-> HostNone, body |-> <<195>>]}

\* ------------------------------------------------ what the upstream may answer

Encodings == {"gzip", "br"}

\* The body an upstream that applies the content coding sends for a payload.
\* "br" is a stand-in framing: all that matters is that it is no gzip member.
Encode(coding, p) ==
    IF coding = "gzip" THEN GzipMagic \o p \o <<Len(p)>> ELSE <<206>> \o p

\* The payload when b is a well-formed stream of the coding.
Decode(coding, b) ==
    IF coding = "gzip"
    THEN [ok   |-> GzipDecoderNew(b) /\ GzipReadToEnd(b).ok,
          data |-> GzipReadToEnd(b).data]
    ELSE [ok   |-> StartsWith(b, <<206>>),
          data |-> IF b = <<>> THEN <<>> ELSE Tail(b)]

ResponseBodies ==
    Payloads
    \cup {Encode(c, p) : c \in Encodings, p \in Payloads}
    \cup {GzipMagic \o p : p \in Payloads}

ResponseHeaders ==
    {[NoHeaders EXCEPT !["content-type"] = <<"application/json">>,
                       !["content-encoding"] = ce,
                       !["transfer-encoding"] = te,
                       !["content-length"] = cl] :
        ce \in {<<>>, <<"gzip">>, <<"br">>},
        te \in {<<>>, <<"chunked">>},
        cl \in {<<>>, <<"7">>}}

Responses == [status : {200, 429}, headers : ResponseHeaders, body : ResponseBodies]

\* A few responses: plain text, gzip text, and a body that is no UTF-8.
FewResponses ==
    {[status |-> 200,
      headers |-> [NoHeaders EXCEPT !["transfer-encoding"] = <<"chunked">>],
      body |-> <<123>>],
     [status |-> 429,
      headers |-> [NoHeaders EXCEPT !["content-encoding"] = <<"gzip">>],
      body |-> Encode("gzip", <<>>)],
     [status |-> 200, headers |-> NoHeaders, body |-> <<169>>]}

\* ------------------------------------------------------------ the environment

ProxyVars == <<"HTTP_PROXY", "http_proxy", "HTTPS_PROXY", "https_proxy">>
PortVar == "openai_proxy_port"
EnvNames == {ProxyVars[i] : i \in 1..Len(ProxyVars)} \cup {PortVar}

\* A variable is unset, set to bytes that are no Unicode, or set to text.
Unset == [kind |-> "unset", text |-> <<>>]
NotUnicode == [kind |-> "not_unicode", text |-> <<>>]
Text(s) == [kind |-> "text", text |-> s]

\* "http://a:1", "http://b", "http://a b" (a space is no URI byte) and "".
ProxyA == <<"h", "t", "t", "p", ":", "/", "/", "a", ":", "1">>
ProxyB == <<"h", "t", "t", "p", ":", "/", "/", "b">>
ProxyBad == <<"h", "t", "t", "p", ":", "/", "/", "a", " ", "b">>
ProxyValues == {Unset, NotUnicode, Text(ProxyA), Text(ProxyB), Text(ProxyBad)}

\* "8080", "65536", "abc" and "".
PortValues ==
    {Unset, NotUnicode, Text(<<"8", "0", "8", "0">>),
     Text(<<"6", "5", "5", "3", "6">>), Text(<<"a", "b", "c">>), Text(<<>>)}

Environments ==
    {e \in [EnvNames -> ProxyValues \cup PortValues] :
        /\ \A i \in 1..Len(ProxyVars) : e[ProxyVars[i]] \in ProxyValues
        /\ e[PortVar] \in PortValues}

\* env::var(name).is_ok(): the variable is set and its value is Unicode.
EnvVarOk(e, name) == e[name].kind = "text"

\* A faulty variant of FirstOk: the variables are probed in the opposite order.
RECURSIVE LastOk(_, _)
LastOk(e, names) ==
    IF names = <<>> THEN 0
    ELSE IF EnvVarOk(e, names[Len(names)]) THEN Len(names)
    ELSE LastOk(e, SubSeq(names, 1, Len(names) - 1))

\* env::var(n1).or_else(|_| env::var(n2))...: the index in names of the
\* first variable env::var returns Ok for, 0 when it returns Err for all.
RECURSIVE FirstOk(_, _)
FirstOk(e, names) ==
    IF names = <<>> THEN 0
    ELSE IF EnvVarOk(e, names[1]) THEN 1
    ELSE LET k == FirstOk(e, Tail(names))
         IN  IF k = 0 THEN 0 ELSE k + 1

\* str::parse::<Uri>().is_ok(), for the values above: an empty string and a
\* string holding a byte that is no URI byte are errors.
UriFromStrOk(s) ==
    /\ s # <<>>
    /\ \A i \in 1..Len(s) : s[i] \in QueryChars

Digits == <<"0", "1", "2", "3", "4", "5", "6", "7", "8", "9">>
IsDigit(c) == \E d \in 1..Len(Digits) : Digits[d] = c
DigitValue(c) == (CHOOSE d \in 1..Len(Digits) : Digits[d] = c) - 1

RECURSIVE DigitsValue(_)
DigitsValue(s) ==
    IF s = <<>> THEN 0
    ELSE 10 * DigitsValue(SubSeq(s, 1, Len(s) - 1)) + DigitValue(s[Len(s)])

\* str::parse::<u16>(): an optional "+", then one digit or more, and a value
\* that fits sixteen bits.
ParseU16(s) ==
    LET ds == IF s # <<>> /\ s[1] = "+" THEN Tail(s) ELSE s
        wf == ds # <<>> /\ \A i \in 1..Len(ds) : IsDigit(ds[i])
    IN  [ok    |-> wf /\ DigitsValue(ds) < 65536,
         value |-> IF wf THEN DigitsValue(ds) ELSE 0]

\* ------------------------------------------------------------------- state

VARIABLES
    env,        \* the process environment
    mainpc,     \* where main is: start, client_selected, port_resolved,
                \* serving, panicked
    client,     \* the ClientEnum built at startup: its variant and proxy URI
    selections, \* how many times a client has been built
    port,       \* the resolved listening port, 0 before
    task        \* the handler tasks

vars == <<env, mainpc, client, selections, port, task>>

NoClient == [mode |-> "none", proxy |-> <<>>]

NoRequest ==
    [method |-> "GET", path |-> PathRoot, query |-> NoQuery,
     headers |-> NoHeaders, body |-> <<>>]
NoSent == [method |-> "", uri |-> <<>>, headers |-> NoHeaders, body |-> <<>>]
NoResponse == [status |-> 0, headers |-> NoHeaders, body |-> <<>>]
NoOutcome ==
    [kind |-> "none", from |-> "none", status |-> 0, headers |-> NoHeaders,
     body |-> <<>>]
\* A task that panicked: the connection is dropped, no response is written.
Closed ==
    [kind |-> "closed", from |-> "panic", status |-> 0, headers |-> NoHeaders,
     body |-> <<>>]

IdleTask ==
    [pc |-> "idle", req |-> NoRequest, uri |-> <<>>, headers |-> NoHeaders,
     wire |-> <<>>, buf |-> <<>>, body |-> <<>>, reads |-> 0,
     sent |-> NoSent, dispatches |-> 0, via |-> "none", failed |-> FALSE,
     resp |-> NoResponse, rwire |-> <<>>, rbuf |-> <<>>, rewrites |-> 0,
     log |-> <<>>, cause |-> "none", out |-> NoOutcome]

\* -------------------------------------------------------------------- main

\* The state once main serves: either client, the default port.
Init ==
    /\ env = [n \in EnvNames |-> Unset]
    /\ mainpc = "serving"
    /\ client \in {[mode |-> "Http", proxy |-> <<>>],
                   [mode |-> "Proxy", proxy |-> ProxyA]}
    /\ selections = 1
    /\ port = DefaultPort
    /\ task = [t \in Tasks |-> IdleTask]

\* The state when the process starts, under any environment.
InitMain ==
    /\ env \in Environments
    /\ mainpc = "start"
    /\ client = NoClient
    /\ selections = 0
    /\ port = 0
    /\ task = [t \in Tasks |-> IdleTask]

\* The first proxy variable env::var returns Ok for, 0 if none.
ProxyChoice(e) == FirstOk(e, ProxyVars)

\* main, the client: the proxy variables are probed, the value found is
\* parsed (unwrap) and the proxy connector built (unwrap); tlsOk is whether
\* ProxyConnector::from_proxy succeeds.
SelectClient(tlsOk) ==
    /\ mainpc = "start"
    /\ LET k == ProxyChoice(env)
       IN  IF k = 0
           THEN /\ client' = [mode |-> "Http", proxy |-> <<>>]
                /\ selections' = selections + 1
                /\ mainpc' = "client_selected"
           ELSE LET proxy == env[ProxyVars[k]].text
                IN  IF UriFromStrOk(proxy) /\ tlsOk
                    THEN /\ client' = [mode |-> "Proxy", proxy |-> proxy]
                         /\ selections' = selections + 1
                         /\ mainpc' = "client_selected"
                    ELSE /\ mainpc' = "panicked"
                         /\ UNCHANGED <<client, selections>>
    /\ UNCHANGED <<env, port, task>>

\* main, the router and the port: env::var(..).map(parse.unwrap).unwrap_or(4000)
ResolvePort ==
    /\ mainpc = "client_selected"
    /\ IF EnvVarOk(env, PortVar)
       THEN LET p == ParseU16(env[PortVar].text)
            IN  IF p.ok
                THEN port' = p.value /\ mainpc' = "port_resolved"
                ELSE port' = port /\ mainpc' = "panicked"
       ELSE port' = DefaultPort /\ mainpc' = "port_resolved"
    /\ UNCHANGED <<env, client, selections, task>>

\* main, the listener: Server::bind panics when the address cannot be bound.
Bind(bound) ==
    /\ mainpc = "port_resolved"
    /\ mainpc' = IF bound THEN "serving" ELSE "panicked"
    /\ UNCHANGED <<env, client, selections, port, task>>

\* ----------------------------------------------------------------- handler

\* route("/*path", any(handler)): the wildcard takes one character or more
\* after the first "/", so every path but "/" reaches the handler.
RouteMatches(path) == Len(path) > 1 /\ path[1] = "/"

\* The router's answer when no route matches.
NotFound ==
    [kind |-> "response", from |-> "router", status |-> 404,
     headers |-> NoHeaders, body |-> <<>>]

\* What the caller is sent for the handler's Result<Response<Body>, ()>:
\* the response of Ok, and for Err(()) the response () converts to, an empty
\* 200.
IntoResponse(result) ==
    IF result.tag = "Ok"
    THEN [kind |-> "response", from |-> "Ok", status |-> result.resp.status,
          headers |-> result.resp.headers, body |-> result.resp.body]
    ELSE [kind |-> "response", from |-> "Err", status |-> 200,
          headers |-> NoHeaders, body |-> <<>>]

Ok(resp) == [tag |-> "Ok", resp |-> resp]
Err == [tag |-> "Err", resp |-> NoResponse]

\* A faulty variant of AbortTask: a build with panic = "abort" ends every task.
AbortProcess(tk, t, cause) ==
    [u \in DOMAIN tk |->
        [tk[u] EXCEPT !.pc = "aborted", !.cause = cause, !.out = Closed]]

\* A panic (unwrap on an Err) in task t: the runtime unwinds that task
\* alone and its connection is dropped.
AbortTask(tk, t, cause) ==
    [tk EXCEPT ![t] = [@ EXCEPT !.pc = "aborted", !.cause = cause,
                                !.out = Closed]]

\* A faulty variant of ToBytes: only the last chunk is kept.
LastChunk(buf, chunk) == chunk

\* hyper::body::to_bytes: the chunks in the order they arrive.
ToBytes(buf, chunk) == buf \o chunk

\* The server accepts a request r, one of reqs, and runs it as task t.
Accept(t, reqs) ==
    /\ mainpc = "serving"
    /\ task[t].pc = "idle"
    /\ \E r \in reqs :
          task' = [task EXCEPT ![t] =
              IF RouteMatches(r.path)
              THEN [IdleTask EXCEPT !.pc = "handler", !.req = r,
                                    !.headers = r.headers, !.wire = r.body]
              ELSE [IdleTask EXCEPT !.pc = "done", !.req = r,
                                    !.headers = r.headers, !.wire = r.body,
                                    !.out = NotFound]]
    /\ UNCHANGED <<env, mainpc, client, selections, port>>

\* handler, the else branch: 200 and an empty body.
NotRouted(t) ==
    /\ task[t].pc = "handler"
    /\ ~StartsWith(task[t].req.path, Prefix)
    /\ task' = [task EXCEPT ![t].pc = "done",
                            ![t].out = IntoResponse(Ok([status |-> 200,
                                                        headers |-> NoHeaders,
                                                        body |-> <<>>]))]
    /\ UNCHANGED <<env, mainpc, client, selections, port>>

\* handler, the start of the forwarding branch: the URI is formatted and
\* logged, the host header overwritten, the URI parsed (unwrap) and stored.
Rewrite(t) ==
    /\ task[t].pc = "handler"
    /\ StartsWith(task[t].req.path, Prefix)
    /\ LET me     == task[t]
           path   == Replacen(me.req.path, Prefix, <<"/">>, 1)
           query  == IF me.req.query = NoQuery THEN <<>> ELSE me.req.query
           uri    == FormatUri(path, query)
           parsed == UriParse(uri)
           next   == [me EXCEPT
                        !.log = Append(@, [kind |-> "request to", text |-> uri]),
                        !.headers = HeaderInsert(@, "host", UpstreamHost)]
       IN  task' = IF parsed.ok
                   THEN [task EXCEPT ![t] =
                            [next EXCEPT !.uri = UriToString(parsed),
                                         !.pc = "read_body"]]
                   ELSE AbortTask([task EXCEPT ![t] = next], t, "uri")
    /\ UNCHANGED <<env, mainpc, client, selections, port>>

\* read_body, to_bytes: the next k bytes of the body arrive.
ReadBodyChunk(t, k) ==
    /\ task[t].pc = "read_body"
    /\ k \in 1..Len(task[t].wire)
    /\ task' = [task EXCEPT
                  ![t].buf = ToBytes(@, SubSeq(task[t].wire, 1, k)),
                  ![t].wire = SubSeq(@, k + 1, Len(@))]
    /\ UNCHANGED <<env, mainpc, client, selections, port>>

\* read_body, to_bytes: the connection fails before the body is complete.
ReadBodyFail(t) ==
    /\ task[t].pc = "read_body"
    /\ task[t].wire # <<>>
    /\ task' = AbortTask(task, t, "body read")
    /\ UNCHANGED <<env, mainpc, client, selections, port>>

\* read_body, after to_bytes: the bytes are decoded (unwrap), logged, and
\* put back as the request's body.
ReadBodyDone(t) ==
    /\ task[t].pc = "read_body"
    /\ task[t].wire = <<>>
    /\ LET me   == task[t]
           next == [me EXCEPT !.reads = @ + 1]
       IN  task' = IF Utf8Valid(me.buf)
                   THEN [task EXCEPT ![t] =
                            [next EXCEPT
                               !.log = Append(@, [kind |-> "request body",
                                                  bytes |-> me.buf]),
                               !.body = me.buf,
                               !.pc = "dispatch"]]
                   ELSE AbortTask([task EXCEPT ![t] = next], t, "body utf8")
    /\ UNCHANGED <<env, mainpc, client, selections, port>>

\* handler: the clock is read, the client's variant matched and logged
\* (check), and the request handed to it.
Dispatch(t) ==
    /\ task[t].pc = "dispatch"
    /\ LET me == task[t]
       IN  task' = [task EXCEPT ![t] =
               [me EXCEPT
                  !.log = Append(@, [kind |-> "client", mode |-> client.mode]),
                  !.sent = [method |-> me.req.method, uri |-> me.uri,
                            headers |-> me.headers, body |-> me.body],
                  !.dispatches = @ + 1,
                  !.via = client.mode,
                  !.pc = "awaiting"]]
    /\ UNCHANGED <<env, mainpc, client, selections, port>>

\* handler: the client yields a response u, one of resps; the elapsed time
\* is taken (unwrap: SystemTime::elapsed is an Err when the clock was set
\* back since the dispatch) and logged, and read_response entered.
UpstreamRespond(t, resps) ==
    /\ task[t].pc = "awaiting"
    /\ \E u \in resps, elapsedOk \in BOOLEAN :
          task' = IF elapsedOk
                  THEN [task EXCEPT
                          ![t].log = Append(@, [kind |-> "time"]),
                          ![t].resp = u,
                          ![t].rwire = u.body,
                          ![t].rewrites = @ + 1,
                          ![t].pc = "read_response"]
                  ELSE AbortTask(task, t, "clock")
    /\ UNCHANGED <<env, mainpc, client, selections, port>>

\* handler: the client yields an error; it is logged, the elapsed time is
\* taken (unwrap) and logged, and Err(()) returned.
UpstreamFail(t) ==
    /\ task[t].pc = "awaiting"
    /\ \E elapsedOk \in BOOLEAN :
          LET warned == [task EXCEPT
                           ![t].log = Append(@, [kind |-> "error"]),
                           ![t].failed = TRUE]
          IN  task' = IF elapsedOk
                      THEN [warned EXCEPT
                              ![t].log = Append(@, [kind |-> "time"]),
                              ![t].out = IntoResponse(Err),
                              ![t].pc = "done"]
                      ELSE AbortTask(warned, t, "clock")
    /\ UNCHANGED <<env, mainpc, client, selections, port>>

\* read_response, to_bytes: the next k bytes of the upstream body arrive.
ReadResponseChunk(t, k) ==
    /\ task[t].pc = "read_response"
    /\ k \in 1..Len(task[t].rwire)
    /\ task' = [task EXCEPT
                  ![t].rbuf = ToBytes(@, SubSeq(task[t].rwire, 1, k)),
                  ![t].rwire = SubSeq(@, k + 1, Len(@))]
    /\ UNCHANGED <<env, mainpc, client, selections, port>>

\* read_response, to_bytes: the upstream connection fails mid-body.
ReadResponseFail(t) ==
    /\ task[t].pc = "read_response"
    /\ task[t].rwire # <<>>
    /\ task' = AbortTask(task, t, "response read")
    /\ UNCHANGED <<env, mainpc, client, selections, port>>

\* The text read_response logs for the buffered body b under headers h, or
\* the unwrap that panics.
ResponseText(h, b) ==
    IF HeaderIsSome(h, "content-encoding")
    THEN IF ~GzipDecoderNew(b) THEN [ok |-> FALSE, why |-> "gzip header", text |-> <<>>]
         ELSE IF ~GzipReadToEnd(b).ok
         THEN [ok |-> FALSE, why |-> "gzip data", text |-> <<>>]
         ELSE IF ~Utf8Valid(GzipReadToEnd(b).data)
         THEN [ok |-> FALSE, why |-> "response utf8", text |-> <<>>]
         ELSE [ok |-> TRUE, why |-> "", text |-> GzipReadToEnd(b).data]
    ELSE IF ~Utf8Valid(b) THEN [ok |-> FALSE, why |-> "response utf8", text |-> <<>>]
         ELSE [ok |-> TRUE, why |-> "", text |-> b]

\* read_response, after to_bytes: the header edits and the rebuilt response.
RebuildResponse(resp, b) ==
    [status  |-> resp.status,
     headers |-> HeaderInsert(HeaderRemove(resp.headers, "transfer-encoding"),
                              "content-length", ToString(Len(b))),
     body    |-> b]

\* read_response, after to_bytes: the body is decoded and logged (unwraps),
\* the headers edited, the response rebuilt and returned as Ok.
ReadResponseDone(t) ==
    /\ task[t].pc = "read_response"
    /\ task[t].rwire = <<>>
    /\ LET me   == task[t]
           text == ResponseText(me.resp.headers, me.rbuf)
       IN  task' = IF text.ok
                   THEN [task EXCEPT ![t] =
                            [me EXCEPT
                               !.log = Append(@, [kind |-> "response",
                                                  bytes |-> text.text]),
                               !.out = IntoResponse(
                                           Ok(RebuildResponse(me.resp, me.rbuf))),
                               !.pc = "done"]]
                   ELSE AbortTask(task, t, text.why)
    /\ UNCHANGED <<env, mainpc, client, selections, port>>

\* The server is done with task t, finished or panicked, and goes on serving.
Release(t) ==
    /\ mainpc = "serving"
    /\ task[t].pc \in {"done", "aborted"}
    /\ task' = [task EXCEPT ![t] = IdleTask]
    /\ UNCHANGED <<env, mainpc, client, selections, port>>

\* ----------------------------------------------------------- specifications

\* A step of task t, given the requests and the responses that may come.
Step(t, reqs, resps) ==
        \/ Accept(t, reqs)
        \/ NotRouted(t)
        \/ Rewrite(t)
        \/ \E k \in 1..MaxBodyLen : ReadBodyChunk(t, k)
        \/ ReadBodyFail(t)
        \/ ReadBodyDone(t)
        \/ Dispatch(t)
        \/ UpstreamRespond(t, resps)
        \/ UpstreamFail(t)
        \/ \E k \in 1..(MaxBodyLen + 3) : ReadResponseChunk(t, k)
        \/ ReadResponseFail(t)
        \/ ReadResponseDone(t)
        \/ Release(t)

\* A step of one of the tasks T.
Serve(T, reqs, resps) == \E t \in T : Step(t, reqs, resps)

Startup ==
    \/ \E tlsOk \in BOOLEAN : SelectClient(tlsOk)
    \/ ResolvePort
    \/ \E bound \in BOOLEAN : Bind(bound)

\* One task, any request, a few responses.
Next == Serve({1}, Requests, FewResponses)
Spec == Init /\ [][Next]_vars

\* One task, a few requests, any response.
NextResp == Serve({1}, FewRequests, Responses)
SpecResp == Init /\ [][NextResp]_vars

\* Every task, a few requests and responses.
NextConc == Serve(Tasks, FewRequests, FewResponses)
SpecConc == Init /\ [][NextConc]_vars

\* The process from its start: main, then one task.
NextMain == Startup \/ Serve({1}, FewRequests, FewResponses)
SpecMain == InitMain /\ [][NextMain]_vars

\* ------------------------------------------------------------------ claims

\* The request of task t has been taken up and its handling has ended.
Finished(t) == task[t].pc \in {"done", "aborted"}

\* Task t has handed its request to the upstream client.
Dispatched(t) == task[t].dispatches > 0

\* The path is under the route's prefix.
Routed(r) == Len(r.path) >= 8 /\ SubSeq(r.path, 1, 8) = Prefix

\* The forwarded URI the specification describes for a routed request.
ExpectedUri(r) ==
    SchemeHost \o <<"/">> \o SubSeq(r.path, 9, Len(r.path))
    \o (IF r.query = NoQuery THEN <<>> ELSE r.query)

\* Text over the bytes a payload may hold: "{" and the pair 195 169.
RECURSIVE IsText(_)
IsText(b) ==
    \/ b = <<>>
    \/ b[1] = 123 /\ IsText(Tail(b))
    \/ Len(b) >= 2 /\ b[1] = 195 /\ b[2] = 169 /\ IsText(Tail(Tail(b)))

\* The rewritten URI of r holds a back quote in its path, so it does not parse.
BadUri(r) ==
    /\ r.query # NoQuery
    /\ \E i \in 1..Len(r.query) :
          /\ r.query[i] = "bq"
          /\ \A j \in 1..(i - 1) : r.query[j] # "?"

\* The kinds of the entries of a log, in order.
Kinds(log) == [i \in 1..Len(log) |-> log[i].kind]

\* C1: a finished request whose path does not start with "/openai/" was
\* answered 200 with an empty body, was never dispatched upstream and its
\* body was never read.  (Fails: the path "/" matches no route and is
\* answered 404.)
C1_NonPrefixGets200 ==
    \A t \in Tasks :
        (Finished(t) /\ ~Routed(task[t].req)) =>
            /\ task[t].out.kind = "response"
            /\ task[t].out.status = 200
            /\ task[t].out.body = <<>>
            /\ task[t].dispatches = 0
            /\ task[t].reads = 0
            /\ task[t].buf = <<>>

\* C2: once a routed request's URI has been rewritten, and when it is
\* dispatched, the URI is "https://api.openai.com", the path with its leading
\* "/openai/" replaced by "/", and the raw query with no "?" before it.
C2_ForwardedUri ==
    \A t \in Tasks :
        /\ task[t].uri # <<>> => task[t].uri = ExpectedUri(task[t].req)
        /\ Dispatched(t) => task[t].sent.uri = ExpectedUri(task[t].req)

C2_Witness ==
    \E t \in Tasks :
        /\ Dispatched(t)
        /\ task[t].req.path = PathTwice
        /\ task[t].req.query = QueryX1

\* C3: a dispatched request carries exactly one host header, api.openai.com,
\* and the method and every other header of the inbound request.
C3_HostHeader ==
    \A t \in Tasks :
        Dispatched(t) =>
            /\ task[t].sent.headers["host"] = <<"api.openai.com">>
            /\ \A n \in HeaderNames \ {"host"} :
                  task[t].sent.headers[n] = task[t].req.headers[n]
            /\ task[t].sent.method = task[t].req.method

C3_Witness ==
    \E t \in Tasks :
        /\ Dispatched(t)
        /\ Len(task[t].req.headers["host"]) = 2
        /\ task[t].req.headers["authorization"] # <<>>

\* C4: the body dispatched upstream is the byte sequence the caller sent, and
\* the inbound body has been read to its end exactly once by then.
C4_BodyRoundTrip ==
    \A t \in Tasks :
        Dispatched(t) =>
            /\ task[t].sent.body = task[t].req.body
            /\ task[t].reads = 1
            /\ task[t].wire = <<>>

C4_Witness ==
    \E t \in Tasks :
        /\ Dispatched(t)
        /\ task[t].req.body = <<195, 169>>

\* C5: a response returned from an upstream response has the upstream's
\* status and body, a content-length equal to the body's byte count, no
\* transfer-encoding, every other upstream header, and is built only when
\* the whole upstream body has been buffered.
C5_ReturnedResponse ==
    \A t \in Tasks :
        task[t].out.from = "Ok" /\ task[t].rewrites > 0 =>
            /\ task[t].out.status = task[t].resp.status
            /\ task[t].out.body = task[t].resp.body
            /\ task[t].out.headers["content-length"]
                   = <<ToString(Len(task[t].resp.body))>>
            /\ task[t].out.headers["transfer-encoding"] = <<>>
            /\ \A n \in HeaderNames \ {"content-length", "transfer-encoding"} :
                  task[t].out.headers[n] = task[t].resp.headers[n]
            /\ task[t].rwire = <<>>
            /\ task[t].rbuf = task[t].resp.body

C5_Witness ==
    \E t \in Tasks :
        /\ task[t].out.from = "Ok"
        /\ task[t].resp.status = 429
        /\ task[t].resp.headers["content-encoding"] = <<"gzip">>
        /\ task[t].resp.headers["transfer-encoding"] = <<"chunked">>
        /\ task[t].resp.headers["content-length"] = <<"7">>
        /\ task[t].resp.body = Encode("gzip", <<195, 169>>)

\* Only task t changes in a step that changes a task, the client stays the
\* one built at startup, and the process goes on serving.
Isolated ==
    /\ \A t \in Tasks :
          task'[t] # task[t] =>
              \A u \in Tasks \ {t} : task'[u] = task[u]
    /\ client' = client
    /\ mainpc = "serving" => mainpc' = "serving"

\* No task waits for another: a task in flight can take a step of its own,
\* and a free task can be given a request.
NeverBlocked ==
    \A t \in Tasks : ENABLED Step(t, FewRequests, FewResponses)

\* Two finished exchanges with the same request, the same upstream answer
\* and the same transport events ended the same way.
SameExchangeSameOutcome ==
    \A t, u \in Tasks :
        (/\ Finished(t) /\ Finished(u)
         /\ task[t].req = task[u].req
         /\ task[t].resp = task[u].resp
         /\ task[t].failed = task[u].failed
         /\ task[t].cause = task[u].cause)
        => task[t].out = task[u].out

\* C6: under every interleaving of the tasks' steps, a step of one task (its
\* transport failure and its panic included) leaves every other task, the
\* shared client and the listener as they were, no task is ever blocked, and
\* an exchange's outcome is decided by that exchange alone.
C6_Independent ==
    /\ [][Isolated]_vars
    /\ [](NeverBlocked /\ SameExchangeSameOutcome)

C6_Witness ==
    \E t, u \in Tasks :
        /\ t # u
        /\ task[t].pc = "aborted"
        /\ task[t].cause = "body utf8"
        /\ task[u].failed
        /\ task[u].pc = "done"

\* The first proxy variable that is set at all, 0 if none is.
FirstSet(e) ==
    IF \E i \in 1..Len(ProxyVars) : e[ProxyVars[i]].kind # "unset"
    THEN CHOOSE i \in 1..Len(ProxyVars) :
            /\ e[ProxyVars[i]].kind # "unset"
            /\ \A j \in 1..(i - 1) : e[ProxyVars[j]].kind = "unset"
    ELSE 0

\* The first proxy variable that is set to Unicode text, 0 if none is.
FirstText(e) ==
    IF \E i \in 1..Len(ProxyVars) : e[ProxyVars[i]].kind = "text"
    THEN CHOOSE i \in 1..Len(ProxyVars) :
            /\ e[ProxyVars[i]].kind = "text"
            /\ \A j \in 1..(i - 1) : e[ProxyVars[j]].kind # "text"
    ELSE 0

\* The values of the model's environments that are URIs, and the ports the
\* port values of the model's environments stand for.
IsUriValue(v) == v \in {Text(ProxyA), Text(ProxyB)}
PortOf(v) == IF v = Text(<<"8", "0", "8", "0">>) THEN 8080 ELSE -1

\* The client was built once, and the port resolved, before serving.
StartedInOrder ==
    /\ selections = 1
    /\ client.mode \in {"Http", "Proxy"}
    /\ port > 0

C8_FailureSignalled ==
    \A t \in Tasks :
        task[t].failed /\ task[t].pc = "done" =>
            /\ task[t].dispatches = 1
            /\ task[t].rewrites = 0
            /\ task[t].log[Len(task[t].log)].kind = "time"
            /\ task[t].resp = NoResponse
            /\ ~(/\ task[t].out.kind = "response"
                 /\ task[t].out.status \in 200..299)

\* C9: a dispatch comes after the URI and host rewrite and after the whole
\* body has been read and decoded, in that order; a request whose rewritten
\* URI does not parse, whose body read fails or whose body is no UTF-8 ends
\* aborted, never dispatched and with no response.
C9_DispatchAfterRewriteAndBody ==
    \A t \in Tasks :
        LET me == task[t]
            neverSent == /\ me.pc = "aborted"
                         /\ me.dispatches = 0
                         /\ me.out.kind = "closed"
        IN  /\ Dispatched(t) =>
                /\ SubSeq(Kinds(me.log), 1, 3)
                       = <<"request to", "request body", "client">>
                /\ me.log[1].text = me.sent.uri
                /\ me.sent.headers["host"] = <<UpstreamHost>>
                /\ me.log[2].bytes = me.req.body
                /\ IsText(me.req.body)
                /\ me.reads = 1
            /\ (Routed(me.req) /\ BadUri(me.req)
                   /\ me.pc \notin {"idle", "handler"}) => neverSent
            /\ (Routed(me.req) /\ ~IsText(me.req.body)
                   /\ me.pc \notin {"idle", "handler", "read_body"}) => neverSent
            /\ me.cause = "body read" => neverSent

C9_Witness ==
    \E t \in Tasks :
        /\ task[t].pc = "aborted"
        /\ task[t].cause = "body utf8"
        /\ task[t].req.body = <<123, 195>>
        /\ task[t].req.query = QueryTwoMarks

\* The text the specification has logged for an upstream response: the body
\* decoded by the coding its content-encoding header names, or the body itself
\* when there is no such header.
MatchingText(resp) ==
    IF resp.headers["content-encoding"] = <<>>
    THEN [ok |-> TRUE, data |-> resp.body]
    ELSE Decode(resp.headers["content-encoding"][1], resp.body)

\* C10: an upstream response whose body arrived whole is returned exactly
\* when its body, decoded by the coding matching its content-encoding header
\* if it has one, is UTF-8 text, and that text is what was logged; otherwise
\* the task is aborted.  (Fails: every coding is decoded as gzip.)
C10_MatchingDecoder ==
    \A t \in Tasks :
        LET me   == task[t]
            text == MatchingText(me.resp)
        IN  (Finished(t) /\ me.rewrites = 1 /\ me.cause # "response read") =>
                IF text.ok /\ Utf8Valid(text.data)
                THEN /\ me.out.from = "Ok"
                     /\ me.log[Len(me.log)] = [kind |-> "response",
                                               bytes |-> text.data]
                ELSE me.pc = "aborted" /\ me.out.kind = "closed"

====
